---- MODULE Spec2Model ----
(***************************************************************************)
(* Model of src/main.rs: an in-memory vector store (Collection), the       *)
(* registry of named collections (BaseDeDonnees) and the cosine            *)
(* similarity function cos, which runs three reductions in three threads.  *)
(*                                                                         *)
(* f32 is modelled as a small binary-free floating format: a finite value  *)
(* is an integer count of units of 1/Scale, of magnitude at most FMax;     *)
(* results beyond FMax overflow to an infinity, and there is a NaN, with   *)
(* the IEEE-754 rules for the operations cos and search use: product,     *)
(* sum, square root, quotient, equality with zero and partial_cmp.         *)
(***************************************************************************)
EXTENDS Integers, Sequences, FiniteSets, TLC

VARIABLES collections, last, vector1, vector2, cosPc, task, joined, cosRet

vars == <<collections, last, vector1, vector2, cosPc, task, joined, cosRet>>

regVars == <<collections, last>>

cosVars == <<vector1, vector2, cosPc, task, joined, cosRet>>

(***************************************************************************)
(* Bounds of the model.                                                    *)
(***************************************************************************)
\* longest vector (number of f32 components)
MaxLen == 2
\* number of distinct Uuid keys
NumIds == 2
\* largest k handed to search
MaxK == 2
\* longest vector stored in the registry specification
RegMaxLen == 1
\* units per 1.0 of the modelled f32
Scale == 8

Ids == 1 .. NumIds

\* the names main registers (main.rs:189-190)
Names == {"ICC", "IA"}

(***************************************************************************)
(* f32                                                                     *)
(***************************************************************************)
\* largest finite value (f32::MAX), in units
FMax == 32 * Scale
PInf == FMax + 1
NInf == 0 - (FMax + 1)
NaN == FMax + 2

One == Scale
\* a finite value whose square overflows (such as 3e38_f32)
Big == 8 * Scale

IsNaN(x) == x = NaN
IsInf(x) == x = PInf \/ x = NInf

Abs(n) == IF n < 0 THEN 0 - n ELSE n
Sgn(n) == IF n < 0 THEN 0 - 1 ELSE IF n > 0 THEN 1 ELSE 0

\* overflow of a finite result to an infinity
Overflow(n) == IF n > FMax THEN PInf ELSE IF n < 0 - FMax THEN NInf ELSE n

\* n / d rounded to the nearest integer, d > 0
RoundDiv(n, d) == Sgn(n) * ((2 * Abs(n) + d) \div (2 * d))

\* x * y on f32
FMul(x, y) ==
  IF IsNaN(x) \/ IsNaN(y) THEN NaN
  ELSE IF IsInf(x) \/ IsInf(y)
       THEN IF x = 0 \/ y = 0 THEN NaN
            ELSE IF Sgn(x) * Sgn(y) > 0 THEN PInf ELSE NInf
       ELSE Overflow(RoundDiv(x * y, Scale))

\* x + y on f32
FAdd(x, y) ==
  IF IsNaN(x) \/ IsNaN(y) THEN NaN
  ELSE IF IsInf(x) /\ IsInf(y) THEN (IF x = y THEN x ELSE NaN)
  ELSE IF IsInf(x) THEN x
  ELSE IF IsInf(y) THEN y
  ELSE Overflow(x + y)

\* largest r with r * r <= n
RECURSIVE ISqrtFrom(_, _)
ISqrtFrom(n, r) == IF (r + 1) * (r + 1) > n THEN r ELSE ISqrtFrom(n, r + 1)

\* f32::sqrt
FSqrt(x) ==
  IF IsNaN(x) \/ x < 0 THEN NaN
  ELSE IF x = PInf THEN PInf
  ELSE ISqrtFrom(x * Scale, 0)

\* x / y on f32
FDiv(x, y) ==
  IF IsNaN(x) \/ IsNaN(y) THEN NaN
  ELSE IF IsInf(x) /\ IsInf(y) THEN NaN
  ELSE IF IsInf(x) THEN (IF Sgn(x) * Sgn(y) >= 0 THEN PInf ELSE NInf)
  ELSE IF IsInf(y) THEN 0
  ELSE IF y = 0 THEN (IF x = 0 THEN NaN ELSE IF x > 0 THEN PInf ELSE NInf)
  ELSE Overflow(Sgn(y) * RoundDiv(x * Scale, Abs(y)))

\* x == 0.0 on f32
FIsZero(x) == x = 0

\* a.partial_cmp(&b): "None" when either side is NaN
PartialCmp(a, b) ==
  IF IsNaN(a) \/ IsNaN(b) THEN "None"
  ELSE IF a < b THEN "Less"
  ELSE IF a > b THEN "Greater"
  ELSE "Equal"

\* a >= b on f32 (false when either side is NaN)
FGe(a, b) == ~IsNaN(a) /\ ~IsNaN(b) /\ a >= b

(***************************************************************************)
(* Input domains                                                           *)
(***************************************************************************)
\* component values the model draws vectors from
Comp == {0, One, Big}

VectorsUpTo(n) == UNION {[1 .. m -> Comp] : m \in 0 .. n}

Vectors == VectorsUpTo(MaxLen)

RegVectors == VectorsUpTo(RegMaxLen)

Min(a, b) == IF a < b THEN a ELSE b

(***************************************************************************)
(* cos, computed sequentially                                              *)
(***************************************************************************)
\* vector1.iter().zip(vector2.iter()).map(|(x, y)| x * y).sum::<f32>()
RECURSIVE DotUpTo(_, _, _)
DotUpTo(a, b, n) ==
  IF n = 0 THEN 0
  ELSE LET acc == DotUpTo(a, b, n - 1)
           xy == FMul(a[n], b[n])
       IN FAdd(acc, xy)

ProduitScalaire(a, b) == DotUpTo(a, b, Min(Len(a), Len(b)))

\* vector.iter().map(|x| x * x).sum()
RECURSIVE SommeCarreUpTo(_, _)
SommeCarreUpTo(a, n) ==
  IF n = 0 THEN 0
  ELSE LET acc == SommeCarreUpTo(a, n - 1)
           xx == FMul(a[n], a[n])
       IN FAdd(acc, xx)

Magnitude(a) == LET somme_carre == SommeCarreUpTo(a, Len(a)) IN FSqrt(somme_carre)

\* the quotient without the zero-magnitude test
CombineUnguarded(produit_scalaire, magnitude1, magnitude2) ==
  FDiv(produit_scalaire, FMul(magnitude1, magnitude2))

\* the combination of the three joined results
Combine(produit_scalaire, magnitude1, magnitude2) ==
  IF FIsZero(magnitude1) \/ FIsZero(magnitude2) THEN 0
  ELSE LET denom == FMul(magnitude1, magnitude2)
       IN FDiv(produit_scalaire, denom)

Cos(a, b) ==
  LET produit_scalaire == ProduitScalaire(a, b)
      magnitude1 == Magnitude(a)
      magnitude2 == Magnitude(b)
  IN Combine(produit_scalaire, magnitude1, magnitude2)

(***************************************************************************)
(* cos, as it runs: three spawned threads and the joins                    *)
(***************************************************************************)
\* the three handles, in the order cos spawns and joins them
Tasks == <<"produit_scalaire", "magnitude1", "magnitude2">>

TaskNames == {Tasks[i] : i \in 1 .. 3}

\* the position of cos: about to spawn or join the n-th task, about to
\* combine, returned
At(at, n) == [at |-> at, n |-> n]

\* a thread not spawned yet
Unspawned == [st |-> "unspawned", a |-> <<>>, b |-> <<>>, i |-> 0, acc |-> 0,
              val |-> 0]

\* the private copies (to_vec) a thread is spawned with
Spawned(t, v1, v2) ==
  [st |-> "running",
   a |-> IF t = "magnitude2" THEN <<>> ELSE v1,
   b |-> IF t = "magnitude1" THEN <<>> ELSE v2,
   i |-> 0, acc |-> 0, val |-> 0]

\* the number of items the iterator of thread t yields
Items(t, r) ==
  IF t = "produit_scalaire" THEN Min(Len(r.a), Len(r.b))
  ELSE IF t = "magnitude1" THEN Len(r.a) ELSE Len(r.b)

\* the term the map closure of thread t makes of item n
Term(t, r, n) ==
  IF t = "produit_scalaire" THEN FMul(r.a[n], r.b[n])
  ELSE IF t = "magnitude1" THEN FMul(r.a[n], r.a[n])
  ELSE FMul(r.b[n], r.b[n])

\* the value thread t ends with: the sum, or its square root
Result(t, acc) == IF t = "produit_scalaire" THEN acc ELSE FSqrt(acc)

\* thread::spawn of the n-th closure
CosSpawn(n) ==
  /\ cosPc = At("spawn", n)
  /\ task' = [task EXCEPT ![Tasks[n]] = Spawned(Tasks[n], vector1, vector2)]
  /\ cosPc' = IF n < 3 THEN At("spawn", n + 1) ELSE At("join", 1)
  /\ UNCHANGED <<vector1, vector2, joined, cosRet, regVars>>

\* one step of sum() in thread t
TaskStep(t) ==
  /\ task[t].st = "running"
  /\ task[t].i < Items(t, task[t])
  /\ LET term == Term(t, task[t], task[t].i + 1)
     IN task' = [task EXCEPT ![t].i = @ + 1, ![t].acc = FAdd(@, term)]
  /\ UNCHANGED <<vector1, vector2, cosPc, joined, cosRet, regVars>>

\* thread t returns from its closure
TaskFinish(t) ==
  /\ task[t].st = "running"
  /\ task[t].i = Items(t, task[t])
  /\ task' = [task EXCEPT ![t].st = "finished",
                          ![t].val = Result(t, task[t].acc)]
  /\ UNCHANGED <<vector1, vector2, cosPc, joined, cosRet, regVars>>

\* a join that does not wait for the thread
JoinWithoutWaiting(t) == TRUE

\* handle.join(): waits for the thread to finish, then takes its value
JoinReady(t) == task[t].st = "finished"

JoinValue(t) == task[t].val

\* handle.join().unwrap() of the n-th handle
CosJoin(n) ==
  /\ cosPc = At("join", n)
  /\ JoinReady(Tasks[n])
  /\ joined' = [t \in (DOMAIN joined) \cup {Tasks[n]} |->
                  IF t = Tasks[n] THEN JoinValue(t) ELSE joined[t]]
  /\ cosPc' = IF n < 3 THEN At("join", n + 1) ELSE At("combine", 0)
  /\ UNCHANGED <<vector1, vector2, task, cosRet, regVars>>

\* the final if / else of cos
CosCombine ==
  /\ cosPc = At("combine", 0)
  /\ cosRet' = Combine(joined["produit_scalaire"], joined["magnitude1"],
                       joined["magnitude2"])
  /\ cosPc' = At("done", 0)
  /\ UNCHANGED <<vector1, vector2, task, joined, regVars>>

\* the thread of cos itself
CosMain == (\E n \in 1 .. 3 : CosSpawn(n) \/ CosJoin(n)) \/ CosCombine

\* a spawned thread
TaskRun(t) == TaskStep(t) \/ TaskFinish(t)

\* cos over the vectors of the model; the comparison makes TLC tabulate the
\* function once instead of evaluating Cos again at every application
CosTable ==
  LET t == [a \in Vectors, b \in Vectors |-> Cos(a, b)]
  IN IF t = <<>> THEN t ELSE t

(***************************************************************************)
(* Collection                                                              *)
(***************************************************************************)
\* Option<T>: None is the empty sequence, Some(x) the one-element sequence
None == <<>>
Some(x) == <<x>>

\* Collection::new(): documents is an empty HashMap
CollectionNew == [x \in {} |-> <<>>]

\* an insert that keeps the entry already stored (entry().or_insert)
DocsInsertIfAbsent(documents, key, vector) ==
  [x \in (DOMAIN documents) \cup {key} |->
     IF x \in DOMAIN documents THEN documents[x] ELSE vector]

\* HashMap::insert(key, vector): insert or replace
DocsInsert(documents, key, vector) ==
  [x \in (DOMAIN documents) \cup {key} |->
     IF x = key THEN vector ELSE documents[x]]

\* a delete that removes nothing
DocsRemoveNone(documents, key) == documents

\* HashMap::remove(key): remove if present
DocsRemove(documents, key) ==
  [x \in (DOMAIN documents) \ {key} |-> documents[x]]

\* HashMap::get(key)
DocsGet(documents, key) ==
  IF key \in DOMAIN documents THEN Some(documents[key]) ELSE None

\* the orders in which HashMap::iter() may visit the keys
IterOrders ==
  {o \in [1 .. NumIds -> Ids] : \A i, j \in 1 .. NumIds : o[i] = o[j] => i = j}

\* a search without the length filter
EligibleAny(vector, request) == TRUE

\* the filter of search: a stored vector of another length is skipped
Eligible(vector, request) == Len(vector) = Len(request)

\* the closure of filter_map on one entry: None, or Some((key, similarity))
FilterMapEntry(key, vector, request) ==
  IF ~Eligible(vector, request) THEN None
  ELSE Some(<<key, CosTable[request, vector]>>)

\* .iter().filter_map(..).collect() over the first n keys of the order
RECURSIVE CollectUpTo(_, _, _, _)
CollectUpTo(documents, request, order, n) ==
  IF n = 0 THEN <<>>
  ELSE LET rest == CollectUpTo(documents, request, order, n - 1)
           key == order[n]
       IN IF key \in DOMAIN documents
          THEN rest \o FilterMapEntry(key, documents[key], request)
          ELSE rest

\* the comparator of sort_by: |a, b| b.1.partial_cmp(&a.1).unwrap_or(Equal)
Compare(a, b) ==
  LET c == PartialCmp(b[2], a[2]) IN IF c = "None" THEN "Equal" ELSE c

\* sort_by moves an element before another when the comparator says Less
IsLess(a, b) == Compare(a, b) = "Less"

\* the position at which the stable sort inserts e into the sorted prefix s
RECURSIVE InsertPos(_, _, _)
InsertPos(s, e, j) ==
  IF j > 0 /\ IsLess(e, s[j]) THEN InsertPos(s, e, j - 1) ELSE j

InsertSorted(s, e) ==
  LET j == InsertPos(s, e, Len(s))
  IN SubSeq(s, 1, j) \o <<e>> \o SubSeq(s, j + 1, Len(s))

\* results.sort_by(..): the stable insertion sort of a short slice
RECURSIVE SortUpTo(_, _)
SortUpTo(results, n) ==
  IF n = 0 THEN <<>> ELSE InsertSorted(SortUpTo(results, n - 1), results[n])

SortBy(results) == SortUpTo(results, Len(results))

\* a search that forgets take(k)
TakeAll(results, k) == results

\* .into_iter().take(k).collect()
Take(results, k) == SubSeq(results, 1, Min(k, Len(results)))

\* Collection::search, for one iteration order of the HashMap
CollectionSearch(documents, request, k, order) ==
  Take(SortBy(CollectUpTo(documents, request, order, NumIds)), k)

\* the record of the last call: its arguments, its return value and the
\* registry as it was before the call
Call(op, coll, key, vector, k, ret) ==
  [op |-> op, coll |-> coll, key |-> key, vector |-> vector, k |-> k,
   ret |-> ret, before |-> collections]

\* Collection::upsert on the collection named c
Upsert(c, key, vector) ==
  /\ c \in DOMAIN collections
  /\ collections' =
       [collections EXCEPT ![c] = DocsInsert(@, key, vector)]
  /\ last' = Call("upsert", c, key, vector, 0, None)
  /\ UNCHANGED cosVars

\* a read that takes the entry out of the store (remove instead of get)
ReadRemoving(c, key) ==
  /\ c \in DOMAIN collections
  /\ last' = Call("read", c, key, <<>>, 0, DocsGet(collections[c], key))
  /\ collections' = [collections EXCEPT ![c] = DocsRemove(@, key)]
  /\ UNCHANGED cosVars

\* Collection::read on the collection named c
Read(c, key) ==
  /\ c \in DOMAIN collections
  /\ last' = Call("read", c, key, <<>>, 0, DocsGet(collections[c], key))
  /\ UNCHANGED <<collections, cosVars>>

\* Collection::delete on the collection named c
Delete(c, key) ==
  /\ c \in DOMAIN collections
  /\ collections' = [collections EXCEPT ![c] = DocsRemove(@, key)]
  /\ last' = Call("delete", c, key, <<>>, 0, None)
  /\ UNCHANGED cosVars

\* Collection::search on the collection named c
Search(c, request, k) ==
  /\ c \in DOMAIN collections
  /\ \E order \in IterOrders :
       last' = Call("search", c, 0, request, k,
                    CollectionSearch(collections[c], request, k, order))
  /\ UNCHANGED <<collections, cosVars>>

(***************************************************************************)
(* BaseDeDonnees                                                           *)
(***************************************************************************)
\* BaseDeDonnees::new(): collections is an empty HashMap
BaseDeDonneesNew == [n \in {} |-> CollectionNew]

\* BaseDeDonnees::add: a new Collection under nom, replacing any other
Add(nom) ==
  /\ collections' =
       [n \in (DOMAIN collections) \cup {nom} |->
          IF n = nom THEN CollectionNew ELSE collections[n]]
  /\ last' = Call("add", nom, 0, <<>>, 0, None)
  /\ UNCHANGED cosVars

\* BaseDeDonnees::search: None for an unknown name
BddSearch(cname, request, k) ==
  /\ \E order \in IterOrders :
       last' = Call("bdd_search", cname, 0, request, k,
                    IF cname \in DOMAIN collections
                    THEN Some(CollectionSearch(collections[cname], request,
                                               k, order))
                    ELSE None)
  /\ UNCHANGED <<collections, cosVars>>

\* no call made yet
NoCall ==
  [op |-> "none", coll |-> "", key |-> 0, vector |-> <<>>, k |-> 0,
   ret |-> None, before |-> BaseDeDonneesNew]

\* cos is not running
CosIdle ==
  /\ vector1 = <<>>
  /\ vector2 = <<>>
  /\ cosPc = At("idle", 0)
  /\ task = [t \in TaskNames |-> Unspawned]
  /\ joined = <<>>
  /\ cosRet = 0

\* one Collection, registered under the first name of main
Init ==
  /\ collections = [n \in {"ICC"} |-> CollectionNew]
  /\ last = NoCall
  /\ CosIdle

Next ==
  \/ \E c \in DOMAIN collections, key \in Ids, vector \in Vectors :
       Upsert(c, key, vector)
  \/ \E c \in DOMAIN collections, key \in Ids : Read(c, key)
  \/ \E c \in DOMAIN collections, key \in Ids : Delete(c, key)
  \/ \E c \in DOMAIN collections, request \in Vectors, k \in 0 .. MaxK :
       Search(c, request, k)

Spec == Init /\ [][Next]_vars

\* the registry, from BaseDeDonnees::new()
InitReg ==
  /\ collections = BaseDeDonneesNew
  /\ last = NoCall
  /\ CosIdle

NextReg ==
  \/ \E nom \in Names : Add(nom)
  \/ \E c \in Names, key \in Ids, vector \in RegVectors :
       Upsert(c, key, vector)
  \/ \E c \in Names, key \in Ids : Read(c, key)
  \/ \E c \in Names, key \in Ids : Delete(c, key)
  \/ \E cname \in Names, request \in RegVectors, k \in 0 .. MaxK :
       BddSearch(cname, request, k)

SpecReg == InitReg /\ [][NextReg]_vars

\* a call of cos on any two vectors, of equal length or not
InitCos ==
  /\ collections = BaseDeDonneesNew
  /\ last = NoCall
  /\ vector1 \in Vectors
  /\ vector2 \in Vectors
  /\ cosPc = At("spawn", 1)
  /\ task = [t \in TaskNames |-> Unspawned]
  /\ joined = <<>>
  /\ cosRet = 0

NextCos ==
  \/ \E n \in 1 .. 3 : CosSpawn(n)
  \/ \E t \in TaskNames : TaskStep(t)
  \/ \E t \in TaskNames : TaskFinish(t)
  \/ \E n \in 1 .. 3 : CosJoin(n)
  \/ CosCombine

SpecCos == InitCos /\ [][NextCos]_vars

\* every thread that can run eventually runs
SpecCosFair ==
  /\ InitCos
  /\ [][NextCos]_vars
  /\ WF_vars(CosMain)
  /\ \A t \in TaskNames : WF_vars(TaskRun(t))

(***************************************************************************)
(* Properties                                                              *)
(***************************************************************************)
\* the store of the collection the last call was made on
Docs == collections[last.coll]

\* the (key, score) list a search returned
Returned == IF last.op = "bdd_search" THEN last.ret[1] ELSE last.ret

IsSearch == last.op = "search"

ReturnedKeys == {Returned[i][1] : i \in 1 .. Len(Returned)}

\* the stored keys whose vector has the length of the request
EligibleKeys == {key \in DOMAIN Docs : Len(Docs[key]) = Len(last.vector)}

AllZero(v) == \A i \in 1 .. Len(v) : v[i] = 0

\* C1: search never returns an identifier whose stored vector has a length
\* other than the request's; every returned identifier is a key of the store
\* and its stored (latest) vector has the length of the request.
SearchSkipsOtherLengths ==
  IsSearch =>
    \A i \in 1 .. Len(Returned) :
      /\ Returned[i][1] \in DOMAIN Docs
      /\ Len(Docs[Returned[i][1]]) = Len(last.vector)

\* a search returned an entry while the store also held a vector of another
\* length
SearchSkippedSome ==
  /\ IsSearch
  /\ Len(Returned) >= 1
  /\ \E key \in DOMAIN Docs : Len(Docs[key]) # Len(last.vector)

\* C2: the list search returns is sorted by descending score: for positions
\* i < j, score[i] >= score[j].
SearchSortedDescending ==
  IsSearch =>
    \A i, j \in 1 .. Len(Returned) :
      i < j => FGe(Returned[i][2], Returned[j][2])

\* C3: search returns exactly min(k, E) entries, E the number of stored
\* vectors of the request's length, and no identifier twice.
SearchLength ==
  IsSearch =>
    /\ Len(Returned) = Min(last.k, Cardinality(EligibleKeys))
    /\ \A i, j \in 1 .. Len(Returned) :
         Returned[i][1] = Returned[j][1] => i = j

\* a search cut its result to k >= 1 entries, fewer than were eligible
SearchTruncated ==
  /\ IsSearch
  /\ last.k >= 1
  /\ Cardinality(EligibleKeys) > last.k
  /\ Len(Returned) = last.k

\* the entries of every identifier but key are the same in both stores
SameButFor(before, after, key) ==
  \A x \in Ids \ {key} : DocsGet(after, x) = DocsGet(before, x)

\* C4: after upsert(id, v) the store holds exactly v under id, present before
\* or not, and every other entry is unchanged; a read(id) that follows
\* immediately returns v.
UpsertThenRead ==
  [][/\ last'.op = "upsert" =>
          /\ DocsGet(collections'[last'.coll], last'.key) = Some(last'.vector)
          /\ SameButFor(collections[last'.coll], collections'[last'.coll],
                        last'.key)
     /\ (last.op = "upsert" /\ last'.op = "read" /\ last'.coll = last.coll
         /\ last'.key = last.key) => last'.ret = Some(last.vector)]_vars

\* an upsert replaced a vector by one of another length, next to another
\* entry
UpsertReplaced ==
  /\ last.op = "upsert"
  /\ last.key \in DOMAIN last.before[last.coll]
  /\ Len(last.before[last.coll][last.key]) # Len(last.vector)
  /\ \E x \in DOMAIN Docs : x # last.key

\* C5: after delete(id) a read(id) returns absent and a search never returns
\* id; delete of an absent identifier leaves the whole store unchanged, and
\* delete of a present one leaves every other entry unchanged.
DeleteThenRead ==
  [][/\ last'.op = "delete" =>
          /\ DocsGet(collections'[last'.coll], last'.key) = None
          /\ SameButFor(collections[last'.coll], collections'[last'.coll],
                        last'.key)
          /\ (last'.key \notin DOMAIN collections[last'.coll]
                => collections' = collections)
     /\ (last.op = "delete" /\ last'.op = "read" /\ last'.coll = last.coll
         /\ last'.key = last.key) => last'.ret = None
     /\ (last.op = "delete" /\ last'.op = "search" /\ last'.coll = last.coll)
          => \A i \in 1 .. Len(last'.ret) : last'.ret[i][1] # last.key]_vars

\* a delete removed a present entry, next to another entry
DeleteRemoved ==
  /\ last.op = "delete"
  /\ last.key \in DOMAIN last.before[last.coll]
  /\ \E x \in DOMAIN Docs : x # last.key

\* C6: cos called with two vectors of different lengths never returns a
\* number: such a call does not return normally.
CosRejectsMismatch ==
  Len(vector1) # Len(vector2) => cosPc.at # "done"

\* C7: when the magnitude of the request or of a stored vector of the same
\* length is exactly zero, its score is 0; a search with k >= 1 over a
\* collection holding only an all-zero vector of the request's length returns
\* that entry with score 0.
ZeroMagnitudeScoresZero ==
  IsSearch =>
    /\ \A i \in 1 .. Len(Returned) :
         (Magnitude(last.vector) = 0 \/ Magnitude(Docs[Returned[i][1]]) = 0)
           => Returned[i][2] = 0
    /\ \A key \in DOMAIN Docs :
         (DOMAIN Docs = {key} /\ AllZero(Docs[key]) /\ last.k >= 1
          /\ Len(Docs[key]) = Len(last.vector))
           => Returned = <<(<<key, 0>>)>>

\* a search with a nonzero request returned the only entry, an all-zero
\* vector, with score 0
ZeroVectorFound ==
  /\ IsSearch
  /\ Len(last.vector) = MaxLen
  /\ ~AllZero(last.vector)
  /\ \E key \in Ids :
       /\ DOMAIN Docs = {key}
       /\ AllZero(Docs[key])
       /\ Returned = <<(<<key, 0>>)>>

\* C8: search and read leave every store as it was; a store changes only by
\* an upsert or a delete on it, and a call on one collection never changes
\* the store of another.
ReadsDoNotMutate ==
  [][/\ last'.op \in {"read", "search", "bdd_search"}
          => collections' = collections
     /\ \A n \in DOMAIN collections :
          /\ n # last'.coll
               => n \in DOMAIN collections' /\ collections'[n] = collections[n]
          /\ (n \in DOMAIN collections' /\ collections'[n] # collections[n]
              /\ last'.op # "add")
               => last'.op \in {"upsert", "delete"}]_vars

\* a forwarded search returned an entry while both collections held entries
SearchedBesideOther ==
  /\ last.op = "bdd_search"
  /\ last.ret # None
  /\ Len(Returned) >= 1
  /\ \A n \in Names : n \in DOMAIN collections /\ DOMAIN collections[n] # {}
  /\ collections["ICC"] # collections["IA"]

\* C9: search returns the k highest-scoring eligible entries: an eligible
\* entry that is not returned scores no more than any returned entry.
SearchReturnsTopK ==
  IsSearch =>
    \A key \in EligibleKeys \ ReturnedKeys :
      \A i \in 1 .. Len(Returned) :
        FGe(Returned[i][2], CosTable[last.vector, Docs[key]])

\* C10: cos terminates under every interleaving of its three threads, each
\* thread works on its own copies of the arguments, the value returned is the
\* one the sequential computation gives, and no thread is running when cos
\* has returned.
CosJoinsBeforeCombining ==
  /\ <>(cosPc.at = "done")
  /\ [](\A t \in TaskNames :
          task[t].st # "unspawned" => task[t] = [Spawned(t, vector1, vector2)
                    EXCEPT !.st = task[t].st, !.i = task[t].i,
                           !.acc = task[t].acc, !.val = task[t].val])
  /\ [](cosPc.at = "done" =>
          /\ cosRet = Cos(vector1, vector2)
          /\ \A t \in TaskNames : task[t].st = "finished")

\* cos returned a nonzero number for two vectors of the longest length
CosReturned ==
  /\ cosPc.at = "done"
  /\ Len(vector1) = MaxLen
  /\ Len(vector2) = MaxLen
  /\ cosRet # 0
  /\ ~IsNaN(cosRet)

====
